---- MODULE Spec2Model ----
(***************************************************************************)
(* State-machine model of taffo::MultiValueMap                             *)
(* (src/lib/TaffoUtils/MultiValueMap.h): an ordered map from small groups  *)
(* of keys to one owned value per group, backed by one std::list of slots  *)
(* (tag slots own a value, item slots hold a key and point at their tag)   *)
(* and an llvm::ValueMap index from each key to its item slot.             *)
(*                                                                         *)
(* A std::list iterator is modelled by the identity of the node it points  *)
(* at (node identities are stable under insertion and erasure of other     *)
(* nodes, as in std::list); the past-the-end iterator is END.              *)
(***************************************************************************)
EXTENDS Integers, Sequences, FiniteSets, TLC

\* ---------------------------------------------------------------- bounds
Keys == {"A", "B", "C"}
Values == {10, 30}
\* most slots the list holds in the model (insertions are refused beyond it)
MaxSlots == 6
\* most single-key calls of one behaviour of Spec (a bulk insert counts once
\* per element of its range)
MaxOps == 4
\* longest input range of the bulk inserts
MaxRange == 2

\* ------------------------------------------------------ program constants
\* long long OrderIdxSpacing = 0x100000;
OrderIdxSpacing == 1048576

\* past-the-end iterator of KeyList
END == 0
\* a null unique_ptr<ValueT> (item slots), and the unset Key of a tag slot
NoValue == 0
NoKey == "-"

\* VL is the container of the earlier, vector-of-lists revision
VARIABLES KeyList, Index, last, ops, VL
vars == <<KeyList, Index, last, ops, VL>>

\* ------------------------------------------------- std::list, by node id
NodeIds == 1..(MaxSlots + 1)

Ids(L) == {L[i].id : i \in 1..Len(L)}

\* position (1..Len+1) of an iterator in the list; END is past the last node
Pos(L, it) == IF it = END THEN Len(L) + 1
              ELSE CHOOSE i \in 1..Len(L) : L[i].id = it

\* iterator at a position
IdAt(L, i) == IF i >= 1 /\ i <= Len(L) THEN L[i].id ELSE END

Node(L, it) == L[Pos(L, it)]

ListBegin(L) == IdAt(L, 1)

ItNext(L, it) == IdAt(L, Pos(L, it) + 1)

ItPrev(L, it) == IdAt(L, Pos(L, it) - 1)

\* the node a list insertion allocates
NewId(L) == CHOOSE i \in NodeIds : i \notin Ids(L) /\ \A j \in NodeIds : j \notin Ids(L) => i <= j

\* std::list::insert(pos, node): the node goes right before pos
ListInsert(L, it, n) ==
  LET p == Pos(L, it)
  IN SubSeq(L, 1, p - 1) \o <<n>> \o SubSeq(L, p, Len(L))

\* std::list::erase(pos): the list without the node
ListErase(L, it) ==
  LET p == Pos(L, it)
  IN SubSeq(L, 1, p - 1) \o SubSeq(L, p + 1, Len(L))

\* ------------------------------------------------------------ KeyListItemT
isTag(n) == n.Value # NoValue

TagNode(id, v, o) == [id |-> id, Value |-> v, Key |-> NoKey, TagIt |-> id, OrderIdx |-> o]

ItemNode(id, k, t, o) == [id |-> id, Value |-> NoValue, Key |-> k, TagIt |-> t, OrderIdx |-> o]

\* ------------------------------------------------------- llvm::ValueMap
IndexFind(I, K) == IF K \in DOMAIN I THEN I[K] ELSE END

IndexSet(I, K, it) == [k \in (DOMAIN I) \cup {K} |-> IF k = K THEN it ELSE I[k]]

IndexErase(I, K) == [k \in (DOMAIN I) \ {K} |-> I[k]]

EmptyIndex == [k \in {} |-> END]

\* ------------------------------------------------ MultiValueMapIterator
skipTagForward(L, it) ==
  IF it # END /\ isTag(Node(L, it)) THEN ItNext(L, it) ELSE it

skipTagBack(L, it) ==
  IF it # ListBegin(L) /\ isTag(Node(L, it)) THEN ItPrev(L, it) ELSE it

\* operator==: both sides skip a tag first
ItEq(L, a, b) == skipTagForward(L, a) = skipTagForward(L, b)

\* first position at or after it that is a tag or the end
ScanToTag(L, it) ==
  LET S == {i \in Pos(L, it)..(Len(L) + 1) : i = Len(L) + 1 \/ isTag(L[i])}
  IN IdAt(L, CHOOSE i \in S : \A j \in S : i <= j)

\* mutation: the position is used as given, also inside a group
insertionPointerForNewList_AsGiven(L, it) == it

insertionPointerForNewList(L, it) ==
  IF it = ListBegin(L) \/ it = END THEN it
  ELSE IF isTag(Node(L, ItPrev(L, it))) THEN ItPrev(L, it)
  ELSE ScanToTag(L, it)

\* <<insertion position, tag of the group>>
leftInsertionPointer(L, it) ==
  IF it = ListBegin(L) THEN <<it, it>>
  ELSE LET Prev0 == ItPrev(L, it)
           step == isTag(Node(L, Prev0)) /\ Prev0 # ListBegin(L)
           Prev == IF step THEN ItPrev(L, Prev0) ELSE Prev0
           Next == IF step THEN ItPrev(L, it) ELSE it
       IN <<Next, Node(L, Prev).TagIt>>

\* mutation: the insertion position is behind the pair instead of in front of it
rightInsertionPointer_Behind(L, it) ==
  LET j == skipTagForward(L, it)
  IN <<ItNext(L, j), Node(L, j).TagIt>>

\* <<insertion position, tag of the group>>; called with it # END
rightInsertionPointer(L, it) ==
  LET j == skipTagForward(L, it)
  IN <<j, Node(L, j).TagIt>>

\* operator++
ItInc(L, it) == skipTagForward(L, ItNext(L, skipTagForward(L, it)))

\* operator--
ItDec(L, it) == skipTagBack(L, ItPrev(L, it))

\* skip(): past the remaining items of the group, onto the next group
skip(L, it) == skipTagForward(L, ScanToTag(L, skipTagForward(L, it)))

\* reverseSkip(): onto the tag of the group, one slot back, onto the tag of
\* that slot's group; the iterator is on a pair
reverseSkip(L, it) ==
  LET t == Node(L, skipTagForward(L, it)).TagIt
  IN IF t = ListBegin(L) THEN skipTagForward(L, t)
     ELSE skipTagForward(L, Node(L, ItPrev(L, t)).TagIt)

\* operator*: the pair <<key, value>> the iterator designates
Deref(L, it) ==
  LET j == skipTagForward(L, it)
  IN <<Node(L, j).Key, Node(L, Node(L, j).TagIt).Value>>

\* -------------------------------------------------------- MultiValueMap
Map(L, I) == [KeyList |-> L, Index |-> I]

\* C++ integer division by two truncates toward zero
Half(a) == IF a >= 0 THEN a \div 2 ELSE -((-a) \div 2)

orderIdxForNewElem(L, it) ==
  IF it = ListBegin(L)
  THEN IF it # END THEN Node(L, it).OrderIdx - OrderIdxSpacing ELSE 0
  ELSE IF it = END THEN Node(L, ItPrev(L, it)).OrderIdx + OrderIdxSpacing
       ELSE Half(Node(L, ItPrev(L, it)).OrderIdx + Node(L, it).OrderIdx)

find(M, K) == IndexFind(M.Index, K)

size(M) == Cardinality(DOMAIN M.Index)

empty(M) == M.KeyList = <<>>

count(M, K) == IF K \in DOMAIN M.Index THEN 1 ELSE 0

\* result of an operation: the map afterwards, the iterator and flag returned
Res(M, it, ok) == [map |-> M, it |-> it, ok |-> ok]

\* mutation: a present key gets the new value written over its group's value
insert_Overwrites(M, P, K, V) ==
  LET L == M.KeyList
      Existing == find(M, K)
  IN IF ~ItEq(L, Existing, END)
     THEN Res(Map([L EXCEPT ![Pos(L, Node(L, Existing).TagIt)].Value = V], M.Index),
              Existing, FALSE)
     ELSE LET FixedP == insertionPointerForNewList(L, P)
              TagIt == NewId(L)
              L1 == ListInsert(L, FixedP, TagNode(TagIt, V, orderIdxForNewElem(L, FixedP)))
              ItmIt == NewId(L1)
              L2 == ListInsert(L1, FixedP, ItemNode(ItmIt, K, TagIt, orderIdxForNewElem(L1, FixedP)))
          IN Res(Map(L2, IndexSet(M.Index, K, ItmIt)), ItmIt, TRUE)

insert(M, P, K, V) ==
  LET L == M.KeyList
      Existing == find(M, K)
  IN IF ~ItEq(L, Existing, END) THEN Res(M, Existing, FALSE)
     ELSE LET FixedP == insertionPointerForNewList(L, P)
              TagIt == NewId(L)
              L1 == ListInsert(L, FixedP, TagNode(TagIt, V, orderIdxForNewElem(L, FixedP)))
              ItmIt == NewId(L1)
              L2 == ListInsert(L1, FixedP, ItemNode(ItmIt, K, TagIt, orderIdxForNewElem(L1, FixedP)))
          IN Res(Map(L2, IndexSet(M.Index, K, ItmIt)), ItmIt, TRUE)

insertRight(M, P0, K) ==
  LET L == M.KeyList
      P == skipTagForward(L, P0)
  IN IF P = END THEN Res(M, P, FALSE)
     ELSE IF K \in DOMAIN M.Index THEN Res(M, P, FALSE)
     ELSE LET InsertP == rightInsertionPointer(L, P)
              ItmIt == NewId(L)
              L1 == ListInsert(L, InsertP[1],
                      ItemNode(ItmIt, K, InsertP[2], orderIdxForNewElem(L, InsertP[1])))
          IN Res(Map(L1, IndexSet(M.Index, K, ItmIt)), ItmIt, TRUE)

insertLeft(M, P0, K) ==
  LET L == M.KeyList
      P == skipTagForward(L, P0)
  IN IF P = skipTagForward(L, ListBegin(L)) THEN Res(M, P, FALSE)
     ELSE IF K \in DOMAIN M.Index THEN Res(M, P, FALSE)
     ELSE LET InsertP == leftInsertionPointer(L, P)
              ItmIt == NewId(L)
              L1 == ListInsert(L, InsertP[1],
                      ItemNode(ItmIt, K, InsertP[2], orderIdxForNewElem(L, InsertP[1])))
          IN Res(Map(L1, IndexSet(M.Index, K, ItmIt)), ItmIt, TRUE)

\* mutation: the key stays in the index when its item slot is unlinked
erase_KeepsKey(M, I, ub) ==
  LET L == M.KeyList
      Itm0 == skipTagForward(L, I)
      Tag == Node(L, Itm0).TagIt
      Itm == ItNext(L, Itm0)
      L1 == ListErase(L, Itm0)
      Prev == ItPrev(L1, Itm)
      ItmIsTag == IF Itm = END THEN ub ELSE isTag(Node(L1, Itm))
      L2 == IF ItmIsTag /\ Prev = Tag THEN ListErase(L1, Tag) ELSE L1
  IN Res(Map(L2, M.Index), Itm, TRUE)

\* erase(iterator).  After the item is unlinked, the code tests Itm->isTag() on
\* the iterator std::list::erase returned; when the erased item was the last
\* slot of the list that iterator is KeyList.end(), and the test reads the
\* list's sentinel: ub is the value that read produces.
erase(M, I, ub) ==
  LET L == M.KeyList
      Itm0 == skipTagForward(L, I)
      Tag == Node(L, Itm0).TagIt
      Idx1 == IndexErase(M.Index, Node(L, Itm0).Key)
      Itm == ItNext(L, Itm0)
      L1 == ListErase(L, Itm0)
      Prev == ItPrev(L1, Itm)
      ItmIsTag == IF Itm = END THEN ub ELSE isTag(Node(L1, Itm))
      L2 == IF ItmIsTag /\ Prev = Tag THEN ListErase(L1, Tag) ELSE L1
  IN Res(Map(L2, Idx1), Itm, TRUE)

\* mutation: erasing an absent key reports success
eraseKey_AlwaysTrue(M, K, ub) ==
  LET KI == find(M, K)
  IN IF ItEq(M.KeyList, KI, END) THEN Res(M, END, TRUE)
     ELSE Res(erase(M, KI, ub).map, END, TRUE)

\* erase(const KeyT&)
eraseKey(M, K, ub) ==
  LET KI == find(M, K)
  IN IF ItEq(M.KeyList, KI, END) THEN Res(M, END, FALSE)
     ELSE Res(erase(M, KI, ub).map, END, TRUE)

\* eraseAll(iterator): the tag, then every slot up to the next tag or the end
eraseAll(M, I) ==
  LET L == M.KeyList
      p == Pos(L, Node(L, I).TagIt)
      S == {i \in (p + 1)..(Len(L) + 1) : i = Len(L) + 1 \/ isTag(L[i])}
      q == CHOOSE i \in S : \A j \in S : i <= j
      Gone == {L[i].Key : i \in (p + 1)..(q - 1)}
      L1 == SubSeq(L, 1, p - 1) \o SubSeq(L, q, Len(L))
  IN Res(Map(L1, [k \in (DOMAIN M.Index) \ Gone |-> M.Index[k]]), IdAt(L, q), TRUE)

\* eraseAll(const KeyT&)
eraseAllKey(M, K) ==
  LET KI == find(M, K)
  IN IF ItEq(M.KeyList, KI, END) THEN Res(M, END, FALSE)
     ELSE Res(eraseAll(M, KI).map, END, TRUE)

clear(M) == Map(<<>>, EmptyIndex)

\* ++State.first of the bulk loops.  Incrementing the end iterator is
\* undefined: wrap tells whether it lands on the first slot (the list is
\* linked circularly) or stays past the end.
BulkInc(L, it, wrap) ==
  IF skipTagForward(L, it) = END
  THEN (IF wrap THEN skipTagForward(L, ListBegin(L)) ELSE END)
  ELSE ItInc(L, it)

\* mutation: the loop does not advance State.first after an insertion
RECURSIVE insertRangeLoop_NoInc(_, _, _, _)
insertRangeLoop_NoInc(M, P, R, wrap) ==
  IF R = <<>> THEN M
  ELSE LET State == insert(M, P, R[1][1], R[1][2])
       IN insertRangeLoop_NoInc(State.map, State.it, Tail(R), wrap)

\* the loop of insert(iterator, InputIt, InputIt) from State.first = P on
RECURSIVE insertRangeLoop(_, _, _, _)
insertRangeLoop(M, P, R, wrap) ==
  IF R = <<>> THEN M
  ELSE LET State == insert(M, P, R[1][1], R[1][2])
       IN insertRangeLoop(State.map, BulkInc(State.map.KeyList, State.it, wrap), Tail(R), wrap)

\* insert(iterator P, InputIt I, InputIt E): R is the range of <<key, value>>
insertRange(M, P, R, wrap) == Res(insertRangeLoop(M, P, R, wrap), P, TRUE)

\* the loop of insert(iterator, InputIt, InputIt, ValueT) behind the first key
RECURSIVE insertGroupLoop(_, _, _, _)
insertGroupLoop(M, P, R, wrap) ==
  IF R = <<>> THEN M
  ELSE LET State == insertLeft(M, P, R[1])
       IN insertGroupLoop(State.map, BulkInc(State.map.KeyList, State.it, wrap), Tail(R), wrap)

\* insert(iterator P, InputIt I, InputIt E, ValueT MV): R is a non-empty range of keys
insertGroup(M, P, R, MV, wrap) ==
  LET State == insert(M, P, R[1], MV)
  IN Res(insertGroupLoop(State.map, BulkInc(State.map.KeyList, State.it, wrap), Tail(R), wrap),
         P, TRUE)

\* mutation: the new key is attached with insertLeft instead of insertRight
onRAUW_Left(M, OldK, NewK, ub) ==
  LET OldKIt == find(M, OldK)
      NewKIt == find(M, NewK)
      M1 == IF ~ItEq(M.KeyList, NewKIt, END) THEN erase(M, NewKIt, ub).map ELSE M
  IN IF ~ItEq(M1.KeyList, OldKIt, END)
     THEN erase(insertLeft(M1, OldKIt, NewK).map, OldKIt, ub).map
     ELSE M1

\* SingleValueIndexConfig::onRAUW
onRAUW(M, OldK, NewK, ub) ==
  LET OldKIt == find(M, OldK)
      NewKIt == find(M, NewK)
      M1 == IF ~ItEq(M.KeyList, NewKIt, END) THEN erase(M, NewKIt, ub).map ELSE M
  IN IF ~ItEq(M1.KeyList, OldKIt, END)
     THEN erase(insertRight(M1, OldKIt, NewK).map, OldKIt, ub).map
     ELSE M1

\* SingleValueIndexConfig::onDelete
onDelete(M, K, ub) ==
  LET KIt == find(M, K)
  IN IF ~ItEq(M.KeyList, KIt, END) THEN erase(M, KIt, ub).map ELSE M

\* the extra data the map was constructed with and hands to the user's hooks
Data == "XData"

\* one invocation of a hook of the user's ConfigT
Hook(name, D, Old, New) == [hook |-> name, Data |-> D, Old |-> Old, New |-> New]

\* mutation: the replacement is passed on to the user as a deletion as well
ConfigT_onRAUW_ThenDelete(OldK, NewK) ==
  <<Hook("onRAUW", Data, OldK, NewK), Hook("onDelete", Data, OldK, NoKey)>>

\* the invocations of the user's hooks made by SingleValueIndexConfig::onRAUW:
\* ConfigT::onRAUW(MVM.Data, OldK, NewK), before the map is touched; the find,
\* erase and insertRight that follow invoke no hook
ConfigT_onRAUW(OldK, NewK) == <<Hook("onRAUW", Data, OldK, NewK)>>

\* the invocations of the user's hooks made by SingleValueIndexConfig::onDelete:
\* ConfigT::onDelete(MVM.Data, K)
ConfigT_onDelete(K) == <<Hook("onDelete", Data, K, NoKey)>>

\* lookup(K): the value of K's group, a default-constructed ValueT if absent
lookup(M, K) ==
  IF K \notin DOMAIN M.Index THEN NoValue
  ELSE Node(M.KeyList, Node(M.KeyList, M.Index[K]).TagIt).Value

\* operator[](K): the value cell of K's group; K is in the map (asserted)
Subscript(M, K) == Node(M.KeyList, Node(M.KeyList, M.Index[K]).TagIt).Value

\* the keys pushed to OutV from list position i on, up to the next tag or the end
RECURSIVE PushKeys(_, _)
PushKeys(L, i) ==
  IF i > Len(L) \/ isTag(L[i]) THEN <<>> ELSE <<L[i].Key>> \o PushKeys(L, i + 1)

\* mutation: the keys are collected from K's own slot on, not from the tag on
getAssociatedValues_FromKey(M, K) ==
  LET L == M.KeyList
      I == find(M, K)
  IN IF ItEq(L, I, END) THEN [ok |-> FALSE, OutV |-> <<>>]
     ELSE [ok |-> TRUE, OutV |-> PushKeys(L, Pos(L, I))]

\* getAssociatedValues(K, OutV), called with an empty OutV
getAssociatedValues(M, K) ==
  LET L == M.KeyList
      I == find(M, K)
  IN IF ItEq(L, I, END) THEN [ok |-> FALSE, OutV |-> <<>>]
     ELSE [ok |-> TRUE, OutV |-> PushKeys(L, Pos(L, Node(L, I).TagIt) + 1)]

\* what a read of the OrderIdx field through KeyList.end() can produce: the
\* list's sentinel holds no KeyListItemT, the read is undefined
SentinelOrderIdx == {-2147483647, 0, 2147483647}

\* operator<=(RHS): the left side skips a tag, the right side is used as it
\* is; u is what a read of OrderIdx through KeyList.end() yields
LessEq(L, a, b, u) ==
  LET x == skipTagForward(L, a)
  IN IF b = x THEN TRUE
     ELSE (IF x = END THEN u ELSE Node(L, x).OrderIdx)
            <= (IF b = END THEN u ELSE Node(L, b).OrderIdx)

\* operator<(RHS) is !(RHS <= *this): here the right side skips a tag and the
\* left side is used as it is
Less(L, a, b, u) == ~LessEq(L, b, a, u)

\* operator>(RHS) is !(*this <= RHS)
Greater(L, a, b, u) == ~LessEq(L, a, b, u)

\* operator>=(RHS) is RHS <= *this
GreaterEq(L, a, b, u) == LessEq(L, b, a, u)

\* The loop `for (; I != end(); ++I) use(*I)` from iterator it on, as in
\* comparePairsFromItToExpected.  An iterator keeps the position its own
\* operations moved it to: I != end() skips a tag on I, *I skips a tag again,
\* and ++I skips, steps and skips.  The result lists I as it is when *I is
\* evaluated; n bounds the number of iterations.
RECURSIVE Walk(_, _, _)
Walk(L, it, n) ==
  LET c == skipTagForward(L, it)
  IN IF n = 0 \/ c = END THEN <<>>
     ELSE <<c>> \o Walk(L, ItInc(L, skipTagForward(L, c)), n - 1)

\* the forward traversal from begin()
Traversal(L) == Walk(L, ListBegin(L), Len(L) + 1)

\* The loop `while (I != begin()) { --I; use(*I); }` from iterator it on, as
\* in TEST_F BackwardsLazyIterator: I != begin() skips a tag on I, then --I.
\* The result lists I as it is when *I is evaluated; n bounds the iterations.
RECURSIVE BackWalk(_, _, _)
BackWalk(L, it, n) ==
  LET c == skipTagForward(L, it)
  IN IF n = 0 \/ c = skipTagForward(L, ListBegin(L)) THEN <<>>
     ELSE <<ItDec(L, c)>> \o BackWalk(L, ItDec(L, c), n - 1)

\* The loop `for (; I != end(); I.skip()) use(*I)` from iterator it on; the
\* result lists I as it is when *I is evaluated; n bounds the iterations.
RECURSIVE SkipWalk(_, _, _)
SkipWalk(L, it, n) ==
  LET c == skipTagForward(L, it)
  IN IF n = 0 \/ c = END THEN <<>>
     ELSE <<c>> \o SkipWalk(L, skip(L, skipTagForward(L, c)), n - 1)

\* the iterators the same loop produces, each as begin() or ++ returned it;
\* the last one is the iterator that compared equal to end()
RECURSIVE Produce(_, _, _)
Produce(L, it, n) ==
  LET c == skipTagForward(L, it)
  IN IF n = 0 \/ c = END THEN <<it>>
     ELSE <<it>> \o Produce(L, ItInc(L, skipTagForward(L, c)), n - 1)

Produced(L) == Produce(L, ListBegin(L), Len(L) + 1)

\* ------------------------------------------------------- observations
\* the item slots in sequence order
RECURSIVE Items(_)
Items(L) ==
  IF L = <<>> THEN <<>>
  ELSE IF isTag(Head(L)) THEN Items(Tail(L)) ELSE <<Head(L)>> \o Items(Tail(L))

\* the tag slots in sequence order
RECURSIVE Tags(_)
Tags(L) ==
  IF L = <<>> THEN <<>>
  ELSE IF isTag(Head(L)) THEN <<Head(L)>> \o Tags(Tail(L)) ELSE Tags(Tail(L))

\* the pairs of the map in sequence order: <<key, value of the key's group>>
PairSeq(L) ==
  [i \in 1..Len(Items(L)) |-> <<Items(L)[i].Key, Node(L, Items(L)[i].TagIt).Value>>]

\* the keys of the map in sequence order
KeySeq(L) == [i \in 1..Len(Items(L)) |-> Items(L)[i].Key]

\* ------------------------------- the earlier revision (vector of lists)
\* src/TaffoUtils/MultiValueMap.h: ValueListsStorage is the outer vector of
\* the groups, each a list of keys named by its address ptr; Index maps a key
\* to the address of its list; ValueListsToValues maps a list to its value.
VLMap(I, S, V) == [Index |-> I, ValueListsStorage |-> S, ValueListsToValues |-> V]

VLEmpty == VLMap(EmptyIndex, <<>>, [p \in {} |-> NoValue])

\* an iterator: nullptr is 0; IInnerList and IOuterList are places in the
\* inner list and in the outer vector, one past the last for their end()
VLIt(Key, InnerList, IInnerList, IOuterList) ==
  [Key |-> Key, InnerList |-> InnerList, IInnerList |-> IInnerList, IOuterList |-> IOuterList]

\* the keys of the list at address ptr
VLKeys(M, ptr) ==
  LET S == M.ValueListsStorage
  IN (CHOOSE g \in {S[i] : i \in 1..Len(S)} : g.ptr = ptr).keys

\* first place of x in the sequence, one past the last if it is not in it
PlaceOf(Q, x) ==
  LET F == {i \in 1..Len(Q) : Q[i] = x}
  IN IF F = {} THEN Len(Q) + 1 ELSE CHOOSE i \in F : \A j \in F : i <= j

hasOuterListIt(it) == it.IOuterList # 0

hasInnerListIt(it) == hasOuterListIt(it) \/ it.Key = NoKey \/ it.IInnerList # 0

makeInnerListIt(M, it) ==
  IF hasInnerListIt(it) THEN it
  ELSE [it EXCEPT !.IInnerList = PlaceOf(VLKeys(M, it.InnerList), it.Key)]

makeOuterListIt(M, it) ==
  IF hasOuterListIt(it) THEN it
  ELSE LET i == makeInnerListIt(M, it)
           S == M.ValueListsStorage
       IN IF i.Key = NoKey THEN [i EXCEPT !.IOuterList = Len(S) + 1]
          ELSE [i EXCEPT !.IOuterList = PlaceOf([j \in 1..Len(S) |-> S[j].ptr], i.InnerList)]

\* MultiValueMapIterator(Parent, IOuterList): on the first key of that list
VLItAtList(M, o) ==
  LET S == M.ValueListsStorage
  IN IF o <= Len(S) THEN VLIt(S[o].keys[1], S[o].ptr, 1, o)
     ELSE VLIt(NoKey, 0, 0, o)

VLend(M) == VLIt(NoKey, 0, 0, Len(M.ValueListsStorage) + 1)

VLbegin(M) == IF M.ValueListsStorage = <<>> THEN VLend(M) ELSE VLItAtList(M, 1)

\* operator==: the keys are compared
VLItEq(a, b) == a.Key = b.Key

VLfind(M, K) ==
  IF K \notin DOMAIN M.Index THEN VLend(M) ELSE VLIt(K, M.Index[K], 0, 0)

VLsize(M) == Cardinality(DOMAIN M.Index)

VLcount(M, K) == IF K \in DOMAIN M.Index THEN 1 ELSE 0

\* the address new ValueListKeyT returns
VLNewPtr(M) ==
  LET Used == {M.ValueListsStorage[i].ptr : i \in 1..Len(M.ValueListsStorage)}
  IN CHOOSE p \in NodeIds : p \notin Used /\ \A q \in NodeIds : q \notin Used => p <= q

SeqInsert(Q, i, x) == SubSeq(Q, 1, i - 1) \o <<x>> \o SubSeq(Q, i, Len(Q))

SeqErase(Q, i) == SubSeq(Q, 1, i - 1) \o SubSeq(Q, i + 1, Len(Q))

\* the outer vector with the keys of the list at address ptr replaced
VLWithKeys(S, ptr, keys) ==
  [j \in 1..Len(S) |-> IF S[j].ptr = ptr THEN [S[j] EXCEPT !.keys = keys] ELSE S[j]]

\* insert(iterator P, {K, V})
VLinsert(M, P, K, V) ==
  IF K \in DOMAIN M.Index THEN Res(M, P, FALSE)
  ELSE LET P1 == makeOuterListIt(M, P)
           NewVL == VLNewPtr(M)
           S == SeqInsert(M.ValueListsStorage, P1.IOuterList, [ptr |-> NewVL, keys |-> <<K>>])
           V2 == [p \in (DOMAIN M.ValueListsToValues) \cup {NewVL} |->
                    IF p = NewVL THEN V ELSE M.ValueListsToValues[p]]
       IN Res(VLMap(IndexSet(M.Index, K, NewVL), S, V2),
              VLIt(K, NewVL, 1, P1.IOuterList), TRUE)

\* insertRight(iterator P, K)
VLinsertRight(M, P, K) ==
  IF VLItEq(P, VLend(M)) THEN Res(M, P, FALSE)
  ELSE IF K \in DOMAIN M.Index THEN Res(M, P, FALSE)
  ELSE LET P1 == makeInnerListIt(M, P)
           keys == SeqInsert(VLKeys(M, P1.InnerList), P1.IInnerList, K)
       IN Res(VLMap(IndexSet(M.Index, K, P1.InnerList),
                    VLWithKeys(M.ValueListsStorage, P1.InnerList, keys),
                    M.ValueListsToValues),
              [P1 EXCEPT !.Key = K], TRUE)

\* insertLeft(iterator P, K)
VLinsertLeft(M, P, K) ==
  IF VLItEq(P, VLbegin(M)) THEN Res(M, P, FALSE)
  ELSE IF K \in DOMAIN M.Index THEN Res(M, P, FALSE)
  ELSE LET P1 == makeInnerListIt(M, P)
           P2 == IF P1.InnerList = 0 \/ P1.IInnerList = 1
                 THEN LET Q == makeOuterListIt(M, P1)
                          g == M.ValueListsStorage[Q.IOuterList - 1]
                      IN VLIt(Q.Key, g.ptr, Len(g.keys) + 1, Q.IOuterList - 1)
                 ELSE P1
           keys == SeqInsert(VLKeys(M, P2.InnerList), P2.IInnerList, K)
       IN Res(VLMap(IndexSet(M.Index, K, P2.InnerList),
                    VLWithKeys(M.ValueListsStorage, P2.InnerList, keys),
                    M.ValueListsToValues),
              [P2 EXCEPT !.Key = K], TRUE)

\* erase(iterator I): I is on a key of the map
VLerase(M, I) ==
  LET I1 == makeInnerListIt(M, I)
      keys == VLKeys(M, I1.InnerList)
  IN IF Len(keys) = 1
     THEN LET I2 == makeOuterListIt(M, I1)
              S == SeqErase(M.ValueListsStorage, I2.IOuterList)
              V2 == [p \in (DOMAIN M.ValueListsToValues) \ {I2.InnerList} |->
                       M.ValueListsToValues[p]]
              M2 == VLMap(IndexErase(M.Index, I2.Key), S, V2)
          IN Res(M2, VLItAtList(M2, I2.IOuterList), TRUE)
     ELSE Res(VLMap(M.Index,
                    VLWithKeys(M.ValueListsStorage, I1.InnerList, SeqErase(keys, I1.IInnerList)),
                    M.ValueListsToValues),
              I1, TRUE)

\* erase(K)
VLeraseKey(M, K) ==
  LET KI == VLfind(M, K)
  IN IF VLItEq(KI, VLend(M)) THEN Res(M, KI, FALSE)
     ELSE Res(VLerase(M, KI).map, VLerase(M, KI).it, TRUE)

\* ------------------------------------------------------------ the machine
ThisMap == Map(KeyList, Index)

\* every iterator a caller can hold: on a slot of the list, or past the end
AllPos(L) == Ids(L) \cup {END}

\* iterators positioned on a live pair: on an item slot, or on a tag slot that
\* is directly followed by an item slot (begin(), or returned by erase)
LivePos(L) ==
  {p \in Ids(L) : skipTagForward(L, p) # END /\ ~isTag(Node(L, skipTagForward(L, p)))}

\* input ranges of the bulk inserts
KeyRanges == UNION {[1..n -> Keys] : n \in 1..MaxRange}

\* the pairs the bulk insert of pairs draws its ranges from
RangePairs == {<<"A", 10>>, <<"B", 30>>, <<"C", 10>>, <<"C", 30>>}

PairRanges == UNION {[1..n -> RangePairs] : n \in 0..MaxRange}

\* what a call costs of the MaxOps budget
Cost(R) == IF Len(R) > 1 THEN Len(R) ELSE 1

NoCall ==
  [op |-> "none", pos |-> END, key |-> NoKey, key2 |-> NoKey, val |-> NoValue,
   range |-> <<>>, ok |-> FALSE, it |-> END, endRead |-> FALSE,
   pre |-> Map(<<>>, EmptyIndex), hooks |-> <<>>]

\* the record of a call: its arguments, what it returned, whether it read the
\* sentinel of the list, the map it was made on, and the hooks of the user's
\* ConfigT it invoked (none, but for the two callbacks of the index)
Call(op, pos, key, key2, val, range, ok, it, endRead) ==
  [op |-> op, pos |-> pos, key |-> key, key2 |-> key2, val |-> val,
   range |-> range, ok |-> ok, it |-> it, endRead |-> endRead, pre |-> ThisMap,
   hooks |-> <<>>]

\* the record of a callback of the index, with the hooks it invoked
Callback(op, key, key2, endRead, hooks) ==
  [Call(op, END, key, key2, NoValue, <<>>, TRUE, END, endRead) EXCEPT !.hooks = hooks]

\* the erase of iterator I reads the sentinel of the list
ReadsEnd(L, I) == ItNext(L, skipTagForward(L, I)) = END

Commit(M, c) ==
  /\ Len(M.KeyList) <= MaxSlots
  /\ KeyList' = M.KeyList
  /\ Index' = M.Index
  /\ last' = c
  /\ ops' = ops + Cost(c.range)
  /\ UNCHANGED VL

\* the same for a client whose calls are not counted
CommitFree(M, c) ==
  /\ Len(M.KeyList) <= MaxSlots
  /\ KeyList' = M.KeyList
  /\ Index' = M.Index
  /\ last' = c
  /\ UNCHANGED <<ops, VL>>

Init ==
  /\ KeyList = <<>>
  /\ Index = EmptyIndex
  /\ last = NoCall
  /\ ops = 0
  /\ VL = VLEmpty

DoInsert ==
  /\ ops < MaxOps
  /\ \E P \in AllPos(KeyList), K \in Keys, V \in Values :
    LET r == insert(ThisMap, P, K, V)
    IN Commit(r.map, Call("insert", P, K, NoKey, V, <<>>, r.ok, r.it, FALSE))

DoInsertLeft ==
  /\ ops < MaxOps
  /\ \E P \in AllPos(KeyList), K \in Keys :
    LET r == insertLeft(ThisMap, P, K)
    IN Commit(r.map, Call("insertLeft", P, K, NoKey, NoValue, <<>>, r.ok, r.it, FALSE))

DoInsertRight ==
  /\ ops < MaxOps
  /\ \E P \in LivePos(KeyList) \cup {END}, K \in Keys :
    LET r == insertRight(ThisMap, P, K)
    IN Commit(r.map, Call("insertRight", P, K, NoKey, NoValue, <<>>, r.ok, r.it, FALSE))

DoInsertRange ==
  /\ ops < MaxOps
  /\ \E R \in {Q \in PairRanges : ops + Cost(Q) <= MaxOps}, P \in AllPos(KeyList) :
    LET r == insertRange(ThisMap, P, R, FALSE)
    IN Commit(r.map, Call("insertRange", P, NoKey, NoKey, NoValue, R, r.ok, r.it, FALSE))

DoInsertGroup ==
  /\ ops < MaxOps
  /\ \E R \in {Q \in KeyRanges : ops + Cost(Q) <= MaxOps}, P \in AllPos(KeyList), V \in Values :
    \E wrap \in IF insertGroup(ThisMap, P, R, V, TRUE) = insertGroup(ThisMap, P, R, V, FALSE)
                THEN {FALSE} ELSE BOOLEAN :
    LET r == insertGroup(ThisMap, P, R, V, wrap)
    IN Commit(r.map, Call("insertGroup", P, NoKey, NoKey, V, R, r.ok, r.it, FALSE))

DoErase ==
  /\ ops < MaxOps
  /\ \E I \in LivePos(KeyList), ub \in BOOLEAN :
    LET r == erase(ThisMap, I, ub)
    IN Commit(r.map, Call("erase", I, NoKey, NoKey, NoValue, <<>>, r.ok, r.it,
                          ReadsEnd(KeyList, I)))

DoEraseKey ==
  /\ ops < MaxOps
  /\ \E K \in Keys, ub \in BOOLEAN :
    LET r == eraseKey(ThisMap, K, ub)
    IN Commit(r.map, Call("eraseKey", END, K, NoKey, NoValue, <<>>, r.ok, r.it,
                          K \in DOMAIN Index /\ ReadsEnd(KeyList, find(ThisMap, K))))

DoEraseAll ==
  /\ ops < MaxOps
  /\ \E I \in LivePos(KeyList) :
    LET r == eraseAll(ThisMap, I)
    IN Commit(r.map, Call("eraseAll", I, NoKey, NoKey, NoValue, <<>>, r.ok, r.it, FALSE))

DoEraseAllKey ==
  /\ ops < MaxOps
  /\ \E K \in Keys :
    LET r == eraseAllKey(ThisMap, K)
    IN Commit(r.map, Call("eraseAllKey", END, K, NoKey, NoValue, <<>>, r.ok, r.it, FALSE))

DoClear ==
  /\ ops < MaxOps
  /\ Commit(clear(ThisMap), Call("clear", END, NoKey, NoKey, NoValue, <<>>, TRUE, END, FALSE))

\* the index's callback for "all uses of OldK replaced with NewK"
DoOnRAUW ==
  /\ ops < MaxOps
  /\ \E OldK \in Keys, NewK \in Keys, ub \in BOOLEAN :
    /\ OldK # NewK
    /\ Commit(onRAUW(ThisMap, OldK, NewK, ub),
              Callback("onRAUW", OldK, NewK,
                       \/ NewK \in DOMAIN Index /\ ReadsEnd(KeyList, find(ThisMap, NewK))
                       \/ OldK \in DOMAIN Index /\ ReadsEnd(KeyList, find(ThisMap, OldK)),
                       ConfigT_onRAUW(OldK, NewK)))

\* the index's callback for "K deleted"
DoOnDelete ==
  /\ ops < MaxOps
  /\ \E K \in Keys, ub \in BOOLEAN :
    Commit(onDelete(ThisMap, K, ub),
           Callback("onDelete", K, NoKey,
                    K \in DOMAIN Index /\ ReadsEnd(KeyList, find(ThisMap, K)),
                    ConfigT_onDelete(K)))

Next ==
  \/ DoInsert
  \/ DoInsertLeft
  \/ DoInsertRight
  \/ DoInsertRange
  \/ DoInsertGroup
  \/ DoErase
  \/ DoEraseKey
  \/ DoEraseAll
  \/ DoEraseAllKey
  \/ DoClear
  \/ DoOnRAUW
  \/ DoOnDelete

Spec == Init /\ [][Next]_vars

\* ------------------------------------------------- a renaming client
\* A client that keeps one single-key group and lets the key be replaced
\* again and again (replaceAllUsesWith on the key, delivered by onRAUW).
RenameStart ==
  /\ KeyList = <<>>
  /\ \E K \in Keys, V \in Values :
       LET r == insert(ThisMap, END, K, V)
       IN CommitFree(r.map, Call("insert", END, K, NoKey, V, <<>>, r.ok, r.it, FALSE))

RenameStep ==
  \E OldK \in DOMAIN Index, NewK \in Keys \ DOMAIN Index :
    CommitFree(onRAUW(ThisMap, OldK, NewK, FALSE),
               Callback("onRAUW", OldK, NewK, FALSE, ConfigT_onRAUW(OldK, NewK)))

NextRename == RenameStart \/ RenameStep

SpecRename == Init /\ [][NextRename]_vars

\* ------------------------------------------------- a reusing client
\* A client that has filled the map with one group and drained it again with
\* erase (one insert and one erase before the calls that are counted), and
\* then goes on using the map as any client does.
ReuseStart ==
  /\ KeyList = <<>>
  /\ last.op = "none"
  /\ \E K \in Keys, V \in Values, ub \in BOOLEAN :
       LET r == insert(ThisMap, END, K, V)
           e == erase(r.map, r.it, ub)
       IN CommitFree(e.map, Call("drain", END, K, NoKey, V, <<>>, e.ok, e.it, TRUE))

\* the client makes single-key calls only
NextReuse ==
  \/ ReuseStart
  \/ DoInsert
  \/ DoInsertLeft
  \/ DoInsertRight
  \/ DoErase
  \/ DoEraseKey
  \/ DoEraseAll
  \/ DoEraseAllKey
  \/ DoOnRAUW
  \/ DoOnDelete

SpecReuse == Init /\ [][NextReuse]_vars

\* the same client refilling the drained map with inserts and bulk inserts
\* of groups
NextRefill ==
  \/ ReuseStart
  \/ DoInsert
  \/ DoInsertGroup

SpecRefill == Init /\ [][NextRefill]_vars

\* ------------------------------------------------- a probing client
\* A client that fills the map with a few calls and probes it with lookup and
\* with iterators constructed from keys; the probes are not counted.

\* a value-initialised KeyListItT: on no slot of the list, and not its end
Singular == -1

\* ValueMap::operator[] on the Index: a key the Index does not hold is
\* inserted with a value-initialised mapped iterator
IndexSubscript(I, K) == IF K \in DOMAIN I THEN I ELSE IndexSet(I, K, Singular)

\* mutation: lookup probes the Index with operator[]
IndexAfterFind_Subscript(I, K) == IndexSubscript(I, K)

\* the Index after Index.find(K): find inserts nothing
IndexAfterFind(I, K) == I

\* lookup(K) as a call: the map afterwards and the ValueT returned by value
lookupCall(M, K) ==
  [map |-> Map(M.KeyList, IndexAfterFind(M.Index, K)), val |-> lookup(M, K)]

\* MultiValueMapIterator(BaseT& Parent, KeyT Key): IKeyList = Parent.Index[Key]
KeyIterator(M, K) ==
  LET I == IndexSubscript(M.Index, K)
  IN Res(Map(M.KeyList, I), I[K], TRUE)

DoLookup ==
  \E K \in Keys :
    LET r == lookupCall(ThisMap, K)
    IN CommitFree(r.map, Call("lookup", END, K, NoKey, r.val, <<>>, TRUE, END, FALSE))

DoKeyIterator ==
  \E K \in Keys :
    LET r == KeyIterator(ThisMap, K)
    IN CommitFree(r.map, Call("iterator", END, K, NoKey, NoValue, <<>>, r.ok, r.it, FALSE))

\* every key of the Index refers to a slot of the list
IndexSound == \A k \in DOMAIN Index : Index[k] \in Ids(KeyList)

\* the client stops using a map whose Index holds a key without a slot
ProbeInsert == IndexSound /\ DoInsert

ProbeInsertRight == IndexSound /\ DoInsertRight

ProbeErase == IndexSound /\ DoErase

ProbeLookup == IndexSound /\ DoLookup

ProbeKeyIterator == IndexSound /\ DoKeyIterator

NextProbe ==
  \/ ProbeInsert
  \/ ProbeInsertRight
  \/ ProbeErase
  \/ ProbeLookup
  \/ ProbeKeyIterator

SpecProbe == Init /\ [][NextProbe]_vars

\* ------------------------------------------------- a grouping client
\* A client that has one more key at hand and builds groups of up to three
\* keys with insert, insertLeft and insertRight, to insert a new group at a
\* position inside such a group.
WideKeys == Keys \cup {"D"}

GrowInsert ==
  /\ ops < MaxOps
  /\ Len(KeyList) + 2 <= MaxSlots
  /\ \E P \in AllPos(KeyList), K \in WideKeys :
    LET r == insert(ThisMap, P, K, 10)
    IN Commit(r.map, Call("insert", P, K, NoKey, 10, <<>>, r.ok, r.it, FALSE))

GrowLeft ==
  /\ ops < MaxOps
  /\ Len(KeyList) + 1 <= MaxSlots
  /\ \E P \in AllPos(KeyList), K \in WideKeys :
    LET r == insertLeft(ThisMap, P, K)
    IN Commit(r.map, Call("insertLeft", P, K, NoKey, NoValue, <<>>, r.ok, r.it, FALSE))

GrowRight ==
  /\ ops < MaxOps
  /\ Len(KeyList) + 1 <= MaxSlots
  /\ \E P \in LivePos(KeyList) \cup {END}, K \in WideKeys :
    LET r == insertRight(ThisMap, P, K)
    IN Commit(r.map, Call("insertRight", P, K, NoKey, NoValue, <<>>, r.ok, r.it, FALSE))

NextGroup ==
  \/ GrowInsert
  \/ GrowLeft
  \/ GrowRight

SpecGroup == Init /\ [][NextGroup]_vars

\* ------------------------------------- a client of the earlier revision
\* A client of the vector-of-lists revision that builds groups with insert,
\* insertRight and insertLeft and erases single keys.

\* the iterators the client holds: begin(), end(), and find of a held key
VLAllPos(M) == {VLbegin(M), VLend(M)} \cup {VLfind(M, k) : k \in DOMAIN M.Index}

VLLivePos(M) == {p \in VLAllPos(M) : ~VLItEq(p, VLend(M))}

\* every key of the Index is in the list the Index names for it
VLSound(M) ==
  \A k \in DOMAIN M.Index :
    /\ \E i \in 1..Len(M.ValueListsStorage) : M.ValueListsStorage[i].ptr = M.Index[k]
    /\ \E i \in 1..Len(VLKeys(M, M.Index[k])) : VLKeys(M, M.Index[k])[i] = k

\* the record of a call on the earlier revision
VLCall(op, P, K, V, r) ==
  [Call(op, END, K, NoKey, V, <<>>, r.ok, END, FALSE)
     EXCEPT !.pos = P, !.it = r.it, !.pre = VL]

VLCommit(M, c) ==
  /\ VL' = M
  /\ last' = c
  /\ ops' = ops + 1
  /\ UNCHANGED <<KeyList, Index>>

\* the client stops using a map whose Index names a list without the key
VLDoInsert ==
  /\ ops < MaxOps /\ VLSound(VL)
  /\ \E P \in VLAllPos(VL), K \in Keys, V \in Values :
    LET r == VLinsert(VL, P, K, V)
    IN VLCommit(r.map, VLCall("VLinsert", P, K, V, r))

VLDoInsertRight ==
  /\ ops < MaxOps /\ VLSound(VL)
  /\ \E P \in VLAllPos(VL), K \in Keys :
    LET r == VLinsertRight(VL, P, K)
    IN VLCommit(r.map, VLCall("VLinsertRight", P, K, NoValue, r))

VLDoInsertLeft ==
  /\ ops < MaxOps /\ VLSound(VL)
  /\ \E P \in VLAllPos(VL), K \in Keys :
    LET r == VLinsertLeft(VL, P, K)
    IN VLCommit(r.map, VLCall("VLinsertLeft", P, K, NoValue, r))

VLDoErase ==
  /\ ops < MaxOps /\ VLSound(VL)
  /\ \E I \in VLLivePos(VL) :
    LET r == VLerase(VL, I)
    IN VLCommit(r.map, VLCall("VLerase", I, I.Key, NoValue, r))

VLDoEraseKey ==
  /\ ops < MaxOps /\ VLSound(VL)
  /\ \E K \in Keys :
    LET r == VLeraseKey(VL, K)
    IN VLCommit(r.map, VLCall("VLeraseKey", VLend(VL), K, NoValue, r))

NextVL ==
  \/ VLDoInsert
  \/ VLDoInsertRight
  \/ VLDoInsertLeft
  \/ VLDoErase
  \/ VLDoEraseKey

SpecVL == Init /\ [][NextVL]_vars

\* ------------------------------------------------------------- claims
\* C1: every live key is held by exactly one item slot, the index maps each
\* live key to that very slot and has no other entries; count(k) is 0 or 1
\* and size() is the number of item slots.
C1_KeysUnique ==
  LET Its == Items(KeyList)
  IN /\ \A i, j \in 1..Len(Its) : Its[i].Key = Its[j].Key => i = j
     /\ DOMAIN Index = {Its[i].Key : i \in 1..Len(Its)}
     /\ \A k \in DOMAIN Index :
          /\ Index[k] \in Ids(KeyList)
          /\ ~isTag(Node(KeyList, Index[k]))
          /\ Node(KeyList, Index[k]).Key = k
     /\ \A k \in Keys : count(ThisMap, k) = Cardinality({i \in 1..Len(Its) : Its[i].Key = k})
     /\ size(ThisMap) = Len(Its)

\* a hook has replaced a key of a map that holds several keys
C1_Witness ==
  /\ last.op = "onRAUW"
  /\ last.key \in DOMAIN last.pre.Index
  /\ last.key2 \in DOMAIN last.pre.Index
  /\ Cardinality(DOMAIN Index) >= 2

\* C2: the slot sequence is a concatenation of well-formed groups: empty or
\* starting with a tag, every tag immediately followed by an item, every
\* item's back-reference the nearest tag before it, as many values as groups.
C2_GroupsWellFormed ==
  LET L == KeyList
      n == Len(L)
  IN /\ n > 0 => isTag(L[1])
     /\ \A i \in 1..n : isTag(L[i]) => (i < n /\ ~isTag(L[i + 1]))
     /\ \A i \in 1..n : ~isTag(L[i]) =>
          \E t \in 1..(i - 1) :
            /\ isTag(L[t])
            /\ L[i].TagIt = L[t].id
            /\ \A u \in (t + 1)..i : ~isTag(L[u])
     /\ Len(Tags(L)) = Cardinality({L[i].TagIt : i \in {j \in 1..n : ~isTag(L[j])}})

\* C3: the order-index values are strictly increasing along the slot
\* sequence, tag and item slots alike, however many slots were inserted at
\* one place.
C3_OrderIdxIncreasing ==
  \A i \in 1..(Len(KeyList) - 1) : KeyList[i].OrderIdx < KeyList[i + 1].OrderIdx

\* ----- what the claims about single calls speak of
\* the map the last call was made on, and its slot sequence
Pre == last.pre

PreL == last.pre.KeyList

\* the slot sequence without the slots whose node is in S
RECURSIVE Without(_, _)
Without(L, S) ==
  IF L = <<>> THEN <<>>
  ELSE IF Head(L).id \in S THEN Without(Tail(L), S) ELSE <<Head(L)>> \o Without(Tail(L), S)

\* the keys whose item slot refers to tag t
Members(L, t) == {L[i].Key : i \in {j \in 1..Len(L) : ~isTag(L[j]) /\ L[j].TagIt = t}}

\* number of item slots before the slot an iterator is on (all of them for END)
ItemsBefore(L, it) == Cardinality({i \in 1..(Pos(L, it) - 1) : ~isTag(L[i])})

\* the iterator designates the first pair of a group
OnFirstOfGroup(L, it) ==
  /\ it \in LivePos(L)
  /\ isTag(Node(L, ItPrev(L, skipTagForward(L, it))))

\* C4: insert(pos, key, value) with key absent succeeds for every pos, returns
\* the new pair, creates a single-key group owning value at a group boundary,
\* keeps every other slot as it was, and when pos is end() or the first pair
\* of a group the new pair immediately precedes pos.
C4_InsertAbsent ==
  (last.op = "insert" /\ last.key \notin DOMAIN Pre.Index) =>
    LET L == KeyList
        it == last.it
        p == Pos(L, it)
        New == Ids(L) \ Ids(PreL)
        pairs == PairSeq(L)
        j == ItemsBefore(PreL, skipTagForward(PreL, last.pos)) + 1
    IN /\ last.ok
       /\ it \in Ids(L)
       /\ Deref(L, it) = <<last.key, last.val>>
       /\ find(ThisMap, last.key) = it
       /\ size(ThisMap) = size(Pre) + 1
       /\ p >= 2 /\ isTag(L[p - 1]) /\ L[p].TagIt = L[p - 1].id
       /\ p = Len(L) \/ isTag(L[p + 1])
       /\ Members(L, L[p].TagIt) = {last.key}
       /\ New = {it, L[p].TagIt}
       /\ Without(L, New) = PreL
       /\ (ItEq(PreL, last.pos, END) \/ OnFirstOfGroup(PreL, last.pos)) =>
            /\ pairs[j] = <<last.key, last.val>>
            /\ SubSeq(pairs, 1, j - 1) \o SubSeq(pairs, j + 1, Len(pairs)) = PairSeq(PreL)

\* a group was inserted between two groups, in front of the first pair of one
C4_Witness ==
  /\ last.op = "insert" /\ last.key \notin DOMAIN Pre.Index /\ last.ok
  /\ OnFirstOfGroup(PreL, last.pos)
  /\ ItemsBefore(PreL, skipTagForward(PreL, last.pos)) >= 1

\* C5: insert(pos, key, value) with key present fails, returns the existing
\* pair of key, overwrites nothing and leaves the map as it was.
C5_InsertPresent ==
  (last.op = "insert" /\ last.key \in DOMAIN Pre.Index) =>
    /\ ~last.ok
    /\ last.it = Pre.Index[last.key]
    /\ Deref(KeyList, last.it)[1] = last.key
    /\ Deref(KeyList, last.it) = Deref(PreL, find(Pre, last.key))
    /\ ThisMap = Pre
    /\ size(ThisMap) = size(Pre)

\* an insert of a present key with a value other than the one it maps to
C5_Witness ==
  /\ last.op = "insert" /\ last.key \in DOMAIN Pre.Index
  /\ Deref(PreL, find(Pre, last.key))[2] # last.val
  /\ last.pos # find(Pre, last.key)

\* C6: insertLeft(pos, key) with key absent and pos != begin() attaches key to
\* the group immediately to the left of pos (the group of the pair before pos),
\* returns the iterator at (key, that group's value), and the new pair
\* immediately precedes pos in iteration order.
C6_InsertLeftAbsent ==
  (/\ last.op = "insertLeft"
   /\ last.key \notin DOMAIN Pre.Index
   /\ last.pos \in LivePos(PreL) \cup {END}
   /\ ~ItEq(PreL, last.pos, ListBegin(PreL))) =>
    LET L == KeyList
        prs == PairSeq(PreL)
        j == ItemsBefore(PreL, skipTagForward(PreL, last.pos)) + 1
    IN /\ last.ok
       /\ j >= 2
       /\ last.it \in Ids(L) \ Ids(PreL)
       /\ Without(L, {last.it}) = PreL
       /\ Node(L, last.it).TagIt = Items(PreL)[j - 1].TagIt
       /\ Deref(L, last.it) = <<last.key, prs[j - 1][2]>>
       /\ PairSeq(L) = SubSeq(prs, 1, j - 1) \o <<Deref(L, last.it)>> \o SubSeq(prs, j, Len(prs))

\* C7: insertRight(pos, key) with key absent and pos != end() attaches key to
\* the group of the pair at pos and places it immediately before that pair:
\* the returned iterator is at (key, value of pos's group) and its ++
\* successor is the pair that was at pos.
C7_InsertRightAbsent ==
  (/\ last.op = "insertRight"
   /\ last.key \notin DOMAIN Pre.Index
   /\ ~ItEq(PreL, last.pos, END)) =>
    LET L == KeyList
        q == skipTagForward(PreL, last.pos)
    IN /\ last.ok
       /\ last.it \in Ids(L) \ Ids(PreL)
       /\ Without(L, {last.it}) = PreL
       /\ find(ThisMap, last.key) = last.it
       /\ Node(L, last.it).TagIt = Node(PreL, q).TagIt
       /\ Deref(L, last.it) = <<last.key, Deref(PreL, last.pos)[2]>>
       /\ ItInc(L, last.it) = q
       /\ Deref(L, ItInc(L, last.it)) = Deref(PreL, last.pos)

\* a key was attached in front of the first pair of a group that has a group
\* to its left
C7_Witness ==
  /\ last.op = "insertRight" /\ last.ok
  /\ OnFirstOfGroup(PreL, last.pos)
  /\ ItemsBefore(PreL, skipTagForward(PreL, last.pos)) >= 1

\* the two groups {A} -> 10 and {B} -> 30, in that order, and nothing else
TwoGroupsAB(L) ==
  /\ Len(L) = 4
  /\ isTag(L[1]) /\ isTag(L[3])
  /\ PairSeq(L) = << <<"A", 10>>, <<"B", 30>> >>

\* insertRight(posOf(A), C) was called on the two groups
C8_Case ==
  /\ last.op = "insertRight"
  /\ last.key = "C"
  /\ TwoGroupsAB(PreL)
  /\ ItEq(PreL, last.pos, find(Pre, "A"))

\* C8 as claimed: from {A} -> 10, {B} -> 30, insertRight(posOf(A), C) yields
\* the iteration order A(10), C(10), B(30).
C8_OrderAsClaimed ==
  C8_Case => (last.ok /\ PairSeq(KeyList) = << <<"A", 10>>, <<"C", 10>>, <<"B", 30>> >>)

\* C8 amended: from {A} -> 10, {B} -> 30, insertRight(posOf(A), C) succeeds and
\* yields the iteration order C(10), A(10), B(30): C comes immediately before
\* A and shares A's value (and group).
C8_OrderAmended ==
  C8_Case =>
    /\ last.ok
    /\ PairSeq(KeyList) = << <<"C", 10>>, <<"A", 10>>, <<"B", 30>> >>
    /\ Members(KeyList, Node(KeyList, find(ThisMap, "A")).TagIt) = {"A", "C"}

C8_Witness == C8_Case /\ last.ok /\ Len(KeyList) = 5

\* C9: insertLeft at the very beginning (pos == begin(), or any iterator on
\* the first pair), insertRight at the very end, and either call with a key
\* that is present, return (the given iterator, false) and change nothing.
C9_InsertSideFails ==
  (\/ /\ last.op = "insertLeft"
      /\ \/ ItEq(PreL, last.pos, ListBegin(PreL))
         \/ last.pos \in LivePos(PreL) /\ ItemsBefore(PreL, skipTagForward(PreL, last.pos)) = 0
   \/ last.op = "insertRight" /\ ItEq(PreL, last.pos, END)
   \/ last.op \in {"insertLeft", "insertRight"} /\ last.key \in DOMAIN Pre.Index) =>
    /\ ~last.ok
    /\ ItEq(PreL, last.it, last.pos)
    /\ ThisMap = Pre

\* C10: erase(k) for a present key returns true and removes exactly k's item
\* slot, and the tag and value of k's group as well when k was its only key,
\* wherever the group sits; nothing else changes.
C10_EraseKeyPresent ==
  (last.op = "eraseKey" /\ last.key \in DOMAIN Pre.Index) =>
    LET itm == Pre.Index[last.key]
        t == Node(PreL, itm).TagIt
        gone == IF Members(PreL, t) = {last.key} THEN {itm, t} ELSE {itm}
    IN /\ last.ok
       /\ size(ThisMap) = size(Pre) - 1
       /\ find(ThisMap, last.key) = END
       /\ Index = IndexErase(Pre.Index, last.key)
       /\ KeyList = Without(PreL, gone)

\* C11: erase(k) and eraseAll(k) on an absent key return false and leave the
\* map (slots, groups, values, order indexes, index, size) exactly as it was;
\* repeating the call gives the same result.
C11_EraseAbsent ==
  (last.op \in {"eraseKey", "eraseAllKey"} /\ last.key \notin DOMAIN Pre.Index) =>
    /\ ~last.ok
    /\ ThisMap = Pre
    /\ size(ThisMap) = size(Pre)
    /\ \A ub \in BOOLEAN : eraseKey(ThisMap, last.key, ub) = Res(ThisMap, END, FALSE)
    /\ eraseAllKey(ThisMap, last.key) = Res(ThisMap, END, FALSE)

\* an absent key was erased from a map that holds two other keys
C11_Witness ==
  /\ last.op = "eraseKey" /\ last.key \notin DOMAIN Pre.Index
  /\ size(Pre) = 2

\* the nodes of the group of tag t: the tag and the item slots that refer to it
GroupIds(L, t) == {t} \cup {L[i].id : i \in {j \in 1..Len(L) : ~isTag(L[j]) /\ L[j].TagIt = t}}

\* position of the last slot of the group of tag t
GroupEnd(L, t) ==
  LET S == {Pos(L, n) : n \in GroupIds(L, t)}
  IN CHOOSE i \in S : \A j \in S : j <= i

\* the item slots behind the group of tag t, in sequence order
ItemsBehind(L, t) == Items(SubSeq(L, GroupEnd(L, t) + 1, Len(L)))

\* C12: eraseAll(k) / eraseAll(iterator) removes the whole group of the key:
\* every member key becomes absent, the tag and value go, size() drops by the
\* number of members, every other slot stays as it was; the positional form
\* returns the iterator at the first pair behind the erased group, or end().
C12_EraseAllGroup ==
  (\/ last.op = "eraseAll"
   \/ last.op = "eraseAllKey" /\ last.key \in DOMAIN Pre.Index) =>
    LET itm == IF last.op = "eraseAll" THEN skipTagForward(PreL, last.pos)
               ELSE Pre.Index[last.key]
        t == Node(PreL, itm).TagIt
        behind == ItemsBehind(PreL, t)
    IN /\ last.ok
       /\ DOMAIN Index = (DOMAIN Pre.Index) \ Members(PreL, t)
       /\ \A k \in DOMAIN Index : Index[k] = Pre.Index[k]
       /\ \A k \in Members(PreL, t) : find(ThisMap, k) = END
       /\ size(ThisMap) = size(Pre) - Cardinality(Members(PreL, t))
       /\ KeyList = Without(PreL, GroupIds(PreL, t))
       /\ last.op = "eraseAll" =>
            IF behind = <<>> THEN ItEq(KeyList, last.it, END)
            ELSE /\ skipTagForward(KeyList, last.it) = behind[1].id
                 /\ Deref(KeyList, last.it) = PairSeq(KeyList)[Len(PairSeq(KeyList)) - Len(behind) + 1]

\* the last call was onKeyReplaced(old, new) with old present
RAUWOldPresent == last.op = "onRAUW" /\ last.key \in DOMAIN Pre.Index

\* C13: onKeyReplaced(old, new) with old present: afterwards find(old) is
\* end() and find(new)->second is the value old mapped to; a previous entry of
\* new is discarded: its item slot is gone, new is no longer in its former
\* group, and that group with its value is destroyed if new was its only key.
C13_ReplacedKeepsOldValue ==
  RAUWOldPresent =>
    LET old == last.key
        new == last.key2
        oldTag == Node(PreL, Pre.Index[old]).TagIt
    IN /\ find(ThisMap, old) = END
       /\ ~ItEq(KeyList, find(ThisMap, new), END)
       /\ Deref(KeyList, find(ThisMap, new)) = <<new, Deref(PreL, find(Pre, old))[2]>>
       /\ new \in DOMAIN Pre.Index =>
            LET newTag == Node(PreL, Pre.Index[new]).TagIt
            IN /\ Node(KeyList, Index[new]).TagIt = oldTag
               /\ newTag # oldTag => new \notin Members(KeyList, newTag)
               /\ Members(PreL, newTag) = {new} =>
                    ~\E i \in 1..Len(KeyList) : isTag(KeyList[i]) /\ KeyList[i].id = newTag

\* the list with key a written for key b in the item slot of b
RenameKey(S, b, a) == [i \in 1..Len(S) |-> IF S[i] = b THEN a ELSE S[i]]

\* the keys of the group of tag t in sequence order
GroupKeys(L, t) == KeySeq(Without(L, Ids(L) \ GroupIds(L, t)))

\* the sequence without the entries equal to x
RECURSIVE SeqWithout(_, _)
SeqWithout(S, x) ==
  IF S = <<>> THEN <<>>
  ELSE IF Head(S) = x THEN SeqWithout(Tail(S), x) ELSE <<Head(S)>> \o SeqWithout(Tail(S), x)

\* C14: onKeyReplaced(old, new) with old present puts new into old's group at
\* the position old had among the group's members, leaves the group's other
\* members and its value as they were, leaves every slot outside old's group
\* and new's former group as it was, and size() is unchanged when new was
\* absent and one smaller when new was present.
C14_ReplacedInPlace ==
  RAUWOldPresent =>
    LET old == last.key
        new == last.key2
        oldItm == Pre.Index[old]
        oldTag == Node(PreL, oldItm).TagIt
        had == new \in DOMAIN Pre.Index
        newItm == IF had THEN Pre.Index[new] ELSE END
        newTag == IF had THEN Node(PreL, newItm).TagIt ELSE END
        L == KeyList
    IN /\ new \in DOMAIN Index
       /\ Node(L, Index[new]).TagIt = oldTag
       /\ oldTag \in Ids(L)
       /\ Node(L, oldTag) = Node(PreL, oldTag)
       /\ GroupKeys(L, oldTag) = RenameKey(SeqWithout(GroupKeys(PreL, oldTag), new), old, new)
       /\ KeySeq(L) = RenameKey(SeqWithout(KeySeq(PreL), new), old, new)
       /\ Without(L, {Index[new], newTag}) = Without(PreL, {oldItm, newItm, newTag})
       /\ size(ThisMap) = IF had THEN size(Pre) - 1 ELSE size(Pre)

\* the first key of a group of two that has a group to its left was replaced
\* by a key that was a member of another group
C14_Witness ==
  /\ RAUWOldPresent
  /\ last.key2 \in DOMAIN Pre.Index
  /\ Node(PreL, Pre.Index[last.key2]).TagIt # Node(PreL, Pre.Index[last.key]).TagIt
  /\ OnFirstOfGroup(PreL, Pre.Index[last.key])
  /\ ItemsBefore(PreL, Pre.Index[last.key]) >= 1
  /\ Cardinality(Members(KeyList, Node(KeyList, Index[last.key2]).TagIt)) = 2

\* C15: onKeyReplaced(old, new) with old absent is a no-op, whether or not new
\* is present: the map is exactly as before the call.
C15_ReplacedAbsentNoOp ==
  (last.op = "onRAUW" /\ last.key \notin DOMAIN Pre.Index) => ThisMap = Pre

\* C16: onKeyDeleted(key) with key present removes exactly key's item slot,
\* and the tag and value of its group as well exactly when key was the only
\* member; the other keys keep their slots, values and order; with key absent
\* nothing changes.
C16_DeletedOneSlot ==
  last.op = "onDelete" =>
    IF last.key \in DOMAIN Pre.Index
    THEN LET itm == Pre.Index[last.key]
             t == Node(PreL, itm).TagIt
             gone == IF Members(PreL, t) = {last.key} THEN {itm, t} ELSE {itm}
         IN /\ Index = IndexErase(Pre.Index, last.key)
            /\ KeyList = Without(PreL, gone)
    ELSE ThisMap = Pre

\* C17: getAssociatedValues(k, out) for a present k returns true and yields
\* exactly the keys of k's group, k included, in sequence order, and every key
\* of the result yields the same list; for an absent k it returns false and
\* adds nothing.
C17_AssociatedValues ==
  \A k \in Keys :
    LET r == getAssociatedValues(ThisMap, k)
    IN IF k \in DOMAIN Index
       THEN /\ r.ok
            /\ r.OutV = GroupKeys(KeyList, Node(KeyList, Index[k]).TagIt)
            /\ \E i \in 1..Len(r.OutV) : r.OutV[i] = k
            /\ \A i \in 1..Len(r.OutV) : getAssociatedValues(ThisMap, r.OutV[i]) = r
       ELSE r = [ok |-> FALSE, OutV |-> <<>>]

\* the map holds a group of two keys, asked for by its second key, and the
\* third key is absent
C17_Witness ==
  /\ \E k \in DOMAIN Index :
       /\ Len(getAssociatedValues(ThisMap, k).OutV) = 2
       /\ getAssociatedValues(ThisMap, k).OutV[2] = k
  /\ \E k \in Keys : ~getAssociatedValues(ThisMap, k).ok

\* *I at each iterator of W reads a slot of the list, not the list's sentinel
ReadsSlots(L, W) == \A i \in 1..Len(W) : skipTagForward(L, W[i]) # END

\* the pairs *I yields at the iterators of W
Yield(L, W) == [i \in 1..Len(W) |-> Deref(L, W[i])]

\* C18: forward iteration from begin() with ++ reaches end() after exactly
\* size() increments and yields each live key once, in slot-sequence order,
\* with the value of its group; a tag slot is never yielded as a pair.
C18_ForwardIteration ==
  LET W == Traversal(KeyList)
  IN /\ Len(W) = size(ThisMap)
     /\ ReadsSlots(KeyList, W)
     /\ \A i \in 1..Len(W) : ~isTag(Node(KeyList, skipTagForward(KeyList, W[i])))
     /\ Yield(KeyList, W) = PairSeq(KeyList)

\* C19: for every present key k, find(k) dereferences to (k, v) with v the
\* value of k's group; lookup(k), operator[](k) and the pair reached by
\* iterating from begin() until k give the same v; and ++ from find(k) yields
\* exactly the pairs the traversal from begin() yields from k on.
C19_AccessPathsAgree ==
  \A k \in DOMAIN Index :
    LET L == KeyList
        v == Node(L, Node(L, Index[k]).TagIt).Value
        W == Traversal(L)
        Y == Yield(L, W)
        at == {i \in 1..Len(Y) : Y[i][1] = k}
        F == Walk(L, find(ThisMap, k), Len(L) + 1)
    IN /\ Deref(L, find(ThisMap, k)) = <<k, v>>
       /\ lookup(ThisMap, k) = v
       /\ Subscript(ThisMap, k) = v
       /\ ReadsSlots(L, W)
       /\ ReadsSlots(L, F)
       /\ at # {}
       /\ \A i \in at :
            /\ Y[i] = <<k, v>>
            /\ Yield(L, F) = SubSeq(Y, i, Len(Y))

\* C20: order law: if a is produced before b by one forward traversal (begin(),
\* each ++, up to the final end()), then a <= b evaluates to true.
C20_OrderLaw ==
  LET P == Produced(KeyList)
  IN \A i, j \in 1..Len(P) :
       i < j => \A u \in SentinelOrderIdx : LessEq(KeyList, P[i], P[j], u)

\* place of the pair an iterator designates in the sequence of pairs
PairNo(L, it) == ItemsBefore(L, skipTagForward(L, it)) + 1

\* C21: for any two iterators a and b positioned on live pairs, however they
\* were obtained, a < b holds exactly when a's pair strictly precedes b's
\* pair, a > b exactly when it strictly follows, and a <= b together with
\* a >= b exactly when a == b.
C21_ComesBefore ==
  \A a, b \in LivePos(KeyList) :
    LET L == KeyList
    IN /\ Less(L, a, b, 0) <=> PairNo(L, a) < PairNo(L, b)
       /\ Greater(L, a, b, 0) <=> PairNo(L, a) > PairNo(L, b)
       /\ (LessEq(L, a, b, 0) /\ GreaterEq(L, a, b, 0)) <=> ItEq(L, a, b)

\* C22: erase(iterator) on an iterator at a live pair removes that pair as
\* erase(k) does (the item slot, and the tag and value of the group too when
\* the key was its only member) and returns the iterator at the pair that
\* followed it, or end() when the erased pair was the last pair.
C22_EraseReturnsNext ==
  last.op = "erase" =>
    LET itm == skipTagForward(PreL, last.pos)
        k == Node(PreL, itm).Key
        t == Node(PreL, itm).TagIt
        gone == IF Members(PreL, t) = {k} THEN {itm, t} ELSE {itm}
        n == PairNo(PreL, last.pos)
    IN /\ Index = IndexErase(Pre.Index, k)
       /\ KeyList = Without(PreL, gone)
       /\ IF n = Len(PairSeq(PreL)) THEN ItEq(KeyList, last.it, END)
          ELSE /\ skipTagForward(KeyList, last.it) # END
               /\ Deref(KeyList, last.it) = PairSeq(PreL)[n + 1]
               /\ PairNo(KeyList, last.it) = n

\* the sequence in reverse order
Reverse(S) == [i \in 1..Len(S) |-> S[Len(S) + 1 - i]]

\* the iterator designates a pair: one tag skip lands on an item slot
OnPair(L, it) == skipTagForward(L, it) # END /\ ~isTag(Node(L, skipTagForward(L, it)))

\* C23: for an iterator on any pair p other than the first, or at end() of a
\* non-empty map, -- moves it to the pair immediately before; ++ then -- and
\* -- then ++ return to p; stepping backwards until the iterator equals
\* begin() visits the preceding pairs in exact reverse sequence order.
C23_BackwardIteration ==
  LET L == KeyList
      prs == PairSeq(L)
  IN \A p \in LivePos(L) \cup {END} :
       LET n == PairNo(L, p)
           B == BackWalk(L, p, Len(L) + 1)
       IN /\ (p # END /\ OnPair(L, ItInc(L, p))) => 
               /\ OnPair(L, ItDec(L, ItInc(L, p)))
               /\ PairNo(L, ItDec(L, ItInc(L, p))) = n
          /\ (p # END /\ ItEq(L, ItInc(L, p), END)) => PairNo(L, ItDec(L, ItInc(L, p))) = n
          /\ n >= 2 =>
               /\ OnPair(L, ItDec(L, p))
               /\ PairNo(L, ItDec(L, p)) = n - 1
               /\ PairNo(L, ItInc(L, ItDec(L, p))) = n
               /\ p = END => ItEq(L, ItInc(L, ItDec(L, p)), END)
          /\ ReadsSlots(L, B)
          /\ Yield(L, B) = Reverse(SubSeq(prs, 1, n - 1))

\* the first item slot of every group that has one, in sequence order
RECURSIVE GroupHeads(_)
GroupHeads(L) ==
  IF Len(L) < 2 THEN <<>>
  ELSE IF isTag(L[1]) /\ ~isTag(L[2]) THEN <<L[2]>> \o GroupHeads(Tail(L))
  ELSE GroupHeads(Tail(L))

\* C24: skip() on an iterator on any member pair of a group G (or on begin())
\* moves it to the first pair of the group that follows G, or to end() if G is
\* the last group; repeated skip() from begin() visits the first pair of
\* every group exactly once, in sequence order, and then reaches end().
C24_SkipToNextGroup ==
  LET L == KeyList
      W == SkipWalk(L, ListBegin(L), Len(L) + 1)
      H == GroupHeads(L)
  IN /\ \A p \in {q \in LivePos(L) \cup {ListBegin(L)} : OnPair(L, q)} :
          LET behind == ItemsBehind(L, Node(L, skipTagForward(L, p)).TagIt)
          IN IF behind = <<>> THEN ItEq(L, skip(L, p), END)
             ELSE /\ OnPair(L, skip(L, p))
                  /\ skipTagForward(L, skip(L, p)) = behind[1].id
     /\ Len(W) = Len(H)
     /\ ReadsSlots(L, W)
     /\ \A i \in 1..Len(W) : skipTagForward(L, W[i]) = H[i].id
     /\ Yield(L, W) = [i \in 1..Len(H) |-> <<H[i].Key, Node(L, H[i].TagIt).Value>>]

\* the keys of a range of pairs, in input order
RangeKeys(R) == [i \in 1..Len(R) |-> R[i][1]]

\* the entries of the sequence are pairwise distinct and none is in set S
DistinctAbsent(S, Present) ==
  /\ \A i, j \in 1..Len(S) : S[i] = S[j] => i = j
  /\ \A i \in 1..Len(S) : S[i] \notin Present

\* C25: bulk insert(pos, first, last) of pairs whose keys are pairwise
\* distinct and absent inserts each pair as its own single-key group: the
\* pairs appear contiguously and in input order at a group boundary
\* (immediately before pos when pos is end() or the first pair of a group),
\* size() grows by the range length, and every slot present before is as it
\* was.
C25_BulkPairs ==
  (last.op = "insertRange" /\ DistinctAbsent(RangeKeys(last.range), DOMAIN Pre.Index)) =>
    LET L == KeyList
        R == last.range
        n == Len(R)
        New == Ids(L) \ Ids(PreL)
        pairs == PairSeq(L)
        at == {j \in 1..(Len(pairs) + 1 - n) :
                 /\ SubSeq(pairs, j, j + n - 1) = R
                 /\ SubSeq(pairs, 1, j - 1) \o SubSeq(pairs, j + n, Len(pairs)) = PairSeq(PreL)}
    IN /\ size(ThisMap) = size(Pre) + n
       /\ Cardinality(New) = 2 * n
       /\ Without(L, New) = PreL
       /\ \A i \in 1..n :
            /\ R[i][1] \in DOMAIN Index
            /\ Deref(L, find(ThisMap, R[i][1])) = R[i]
            /\ Members(L, Node(L, Index[R[i][1]]).TagIt) = {R[i][1]}
            /\ isTag(Node(L, ItPrev(L, Index[R[i][1]])))
       /\ at # {}
       /\ (ItEq(PreL, last.pos, END) \/ OnFirstOfGroup(PreL, last.pos)) =>
            (ItemsBefore(PreL, skipTagForward(PreL, last.pos)) + 1) \in at

\* two pairs were inserted in front of the first pair of a group
C25_Witness ==
  /\ last.op = "insertRange" /\ DistinctAbsent(RangeKeys(last.range), DOMAIN Pre.Index)
  /\ Len(last.range) = 2
  /\ OnFirstOfGroup(PreL, last.pos)
  /\ size(ThisMap) = 3

\* the tag slots of the list
TagIds(L) == {L[i].id : i \in {j \in 1..Len(L) : isTag(L[j])}}

\* C26: bulk insert(pos, first, last, value) of a non-empty range of pairwise
\* distinct absent keys creates exactly one new group owning value whose
\* members are the keys of the range in input order: getAssociatedValues of
\* any key of the range returns the whole range in input order, every key
\* maps to value, and no group present before gains or loses a key.
C26_BulkGroup ==
  (last.op = "insertGroup" /\ DistinctAbsent(last.range, DOMAIN Pre.Index)) =>
    LET L == KeyList
        R == last.range
        New == Ids(L) \ Ids(PreL)
    IN /\ size(ThisMap) = size(Pre) + Len(R)
       /\ Cardinality(New) = Len(R) + 1
       /\ Cardinality(New \cap TagIds(L)) = 1
       /\ Without(L, New) = PreL
       /\ \A i \in 1..Len(R) :
            /\ getAssociatedValues(ThisMap, R[i]) = [ok |-> TRUE, OutV |-> R]
            /\ lookup(ThisMap, R[i]) = last.val
            /\ Deref(L, find(ThisMap, R[i])) = <<R[i], last.val>>
            /\ Node(L, Index[R[i]]).TagIt \in New
       /\ \A t \in TagIds(PreL) : Members(L, t) = Members(PreL, t)

\* the keys of the range that the map did not hold before the call
FreshKeys(S) == {S[i] : i \in {j \in 1..Len(S) : S[j] \notin DOMAIN Pre.Index}}

\* a single-key call that reports failure leaves the map as it was
SingleAllOrNothing ==
  (last.op \in {"insert", "insertLeft", "insertRight", "eraseKey", "eraseAllKey"} /\ ~last.ok) =>
    ThisMap = Pre

\* a bulk insert of the range of keys S either inserted every key of the
\* range or left the map as it was, and no key of the range was attached to a
\* group present before the call
BulkAllOrNothing(S) ==
  /\ \/ ThisMap = Pre
     \/ size(ThisMap) = size(Pre) + Len(S)
  /\ \A k \in FreshKeys(S) \cap DOMAIN Index :
       Node(KeyList, Index[k]).TagIt \notin TagIds(PreL)

\* C27: there are no partial-failure states: a call that fails leaves the map
\* unchanged, and a bulk insert either inserts its whole range or changes
\* nothing; it never ends with part of the range inserted and never attaches
\* keys of the range to a group present before.
C27_NoPartialFailure ==
  /\ SingleAllOrNothing
  /\ last.op = "insertRange" => BulkAllOrNothing(RangeKeys(last.range))
  /\ last.op = "insertGroup" => BulkAllOrNothing(last.range)

\* the same for the bulk inserts whose ranges hold distinct absent keys only
\* (on a map without a tag left behind by erase in front of the position)
X27_CleanRanges ==
  /\ SingleAllOrNothing
  /\ (last.op = "insertRange" /\ DistinctAbsent(RangeKeys(last.range), DOMAIN Pre.Index)) =>
       BulkAllOrNothing(RangeKeys(last.range))
  /\ (last.op = "insertGroup" /\ DistinctAbsent(last.range, DOMAIN Pre.Index)) =>
       BulkAllOrNothing(last.range)

\* begin() == end()
BeginIsEnd(M) == ItEq(M.KeyList, ListBegin(M.KeyList), END)

\* C28: the three emptiness observers agree in every reachable state:
\* size() == 0, empty() and begin() == end() are equivalent; they hold for a
\* freshly constructed map and again whenever every key has been removed.
C28_EmptinessAgree ==
  /\ (size(ThisMap) = 0) <=> empty(ThisMap)
  /\ empty(ThisMap) <=> BeginIsEnd(ThisMap)
  /\ last.op = "none" => empty(ThisMap)

\* the invocations of the named hook among those of the last call
HookCalls(name) == SelectSeq(last.hooks, LAMBDA h : h.hook = name)

ValueCell(M, K) == Node(M.KeyList, M.Index[K]).TagIt

\* the keys that the last call left in their group: held before and after,
\* and not the key a replacement has moved into the group of the old key
KeptKeys ==
  {k \in DOMAIN Pre.Index \cap DOMAIN Index : ~(last.op = "onRAUW" /\ k = last.key2)}

\* the cell of every key the last call left in its group is the cell it was,
\* still owned by a tag slot of the list and holding the same value
CellsStay ==
  \A k \in KeptKeys :
    /\ ValueCell(ThisMap, k) = ValueCell(Pre, k)
    /\ ValueCell(ThisMap, k) \in TagIds(KeyList)
    /\ Subscript(ThisMap, k) = Subscript(Pre, k)

\* no cell outlives its group
CellsOfGroupsOnly == \A t \in TagIds(KeyList) : Members(KeyList, t) # {}

\* no cell is destroyed before its group is
GroupsHaveCells == \A k \in DOMAIN Index : ValueCell(ThisMap, k) \in TagIds(KeyList)

\* C30: the Value of a group is created once, with the group, and is never
\* moved or replaced while the group exists: for every key that stays in its
\* group across a call, operator[] refers to the same cell before and after;
\* and the cell is destroyed exactly when its group is destroyed.
C30_ValueCellStable ==
  /\ CellsStay
  /\ GroupsHaveCells
  /\ CellsOfGroupsOnly

\* the part of it that is about the cells of existing groups
X30_CellsOfLiveGroups == CellsStay /\ GroupsHaveCells

\* the tag of the group the last call erased from, END if it erased nothing
ErasedTag ==
  IF last.op \in {"erase", "eraseAll"}
  THEN Node(PreL, skipTagForward(PreL, last.pos)).TagIt
  ELSE IF last.op \in {"eraseKey", "eraseAllKey"} /\ last.key \in DOMAIN Pre.Index
       THEN Node(PreL, Pre.Index[last.key]).TagIt
       ELSE END

\* the iterator p, taken on a pair before the last call, is on the same pair
\* after it, and ++ from it yields the pair that follows now, or end()
StaysOn(p) ==
  LET L == KeyList
      itm == skipTagForward(PreL, p)
      k == Node(PreL, itm).Key
      n == PairNo(L, p)
      q == ItInc(L, p)
  IN /\ p \in Ids(L)
     /\ Index[k] = itm
     /\ OnPair(L, p)
     /\ Deref(L, p) = <<k, lookup(Pre, k)>>
     /\ IF n = Len(PairSeq(L)) THEN ItEq(L, q, END)
        ELSE OnPair(L, q) /\ Deref(L, q) = PairSeq(L)[n + 1]

\* C31: an iterator positioned on a key k before a mutating call stays valid
\* as long as k's slot is not removed: after any insert, insertLeft,
\* insertRight, or an erase / eraseAll of keys of other groups, it still
\* dereferences to k and the value of k's group, ++ from it yields k's
\* current successor, and it is a position of the list for a later call.
C31_IteratorsStay ==
  last.op \in {"insert", "insertLeft", "insertRight",
               "erase", "eraseKey", "eraseAll", "eraseAllKey"} =>
    \A p \in LivePos(PreL) :
      LET itm == skipTagForward(PreL, p)
      IN Node(PreL, itm).TagIt # ErasedTag => StaysOn(p)

\* the same for the iterators that are on the item slot of their key, as
\* find and the single-key inserts return them
X31_ItemIteratorsStay ==
  last.op \in {"insert", "insertLeft", "insertRight",
               "erase", "eraseKey", "eraseAll", "eraseAllKey"} =>
    \A p \in {q \in LivePos(PreL) : ~isTag(Node(PreL, q))} :
      Node(PreL, p).TagIt # ErasedTag => StaysOn(p)

\* C32: lookup(k) returns a copy of the value of k's group when k is present
\* and a default-constructed Value when k is absent, and in neither case
\* changes the container: an absent key is not inserted by the probe.
C32_LookupProbe ==
  last.op = "lookup" =>
    /\ ThisMap = Pre
    /\ size(ThisMap) = size(Pre)
    /\ \A k \in Keys : count(ThisMap, k) = count(Pre, k)
    /\ IF last.key \in DOMAIN Pre.Index
       THEN \E i \in 1..Len(PairSeq(PreL)) : PairSeq(PreL)[i] = <<last.key, last.val>>
       ELSE last.val = NoValue /\ count(ThisMap, last.key) = 0

\* an absent key was looked up in a map that holds another key
C32_Witness ==
  /\ last.op = "lookup"
  /\ last.key \notin DOMAIN Index
  /\ last.val = NoValue
  /\ size(ThisMap) >= 1

\* C37: constructing an iterator from a key with the key-based constructor
\* never changes the container: size() and count(k) for every k are the same
\* before and after, and for a present key the iterator equals find(key).
C37_KeyIteratorProbe ==
  last.op = "iterator" =>
    /\ size(ThisMap) = size(Pre)
    /\ \A k \in Keys : count(ThisMap, k) = count(Pre, k)
    /\ last.key \in DOMAIN Pre.Index => ItEq(KeyList, last.it, find(Pre, last.key))

\* the same for the keys the map holds
X37_PresentKeys ==
  (last.op = "iterator" /\ last.key \in DOMAIN Pre.Index) =>
    /\ ThisMap = Pre
    /\ ItEq(KeyList, last.it, find(Pre, last.key))

\* C33: no public call made within its documented preconditions (erase,
\* eraseAll and insertRight on a live pair, any position for insert and
\* insertLeft, any key for the key-based forms and the two callbacks) reads a
\* field of the past-the-end position of the list, in particular not when the
\* affected key is the last pair of the sequence.
C33_NoSentinelRead == ~last.endRead

\* the item slots of the group of tag t before list position i, and from it on
ItemsOfGroupBefore(L, t, i) ==
  Cardinality({j \in 1..(i - 1) : ~isTag(L[j]) /\ L[j].TagIt = t})

ItemsOfGroupFrom(L, t, i) ==
  Cardinality({j \in i..Len(L) : ~isTag(L[j]) /\ L[j].TagIt = t})

\* insert was called with an absent key at a non-first pair of a group
InsideGroup ==
  /\ last.op = "insert" /\ last.key \notin DOMAIN Pre.Index
  /\ last.pos # END
  /\ ~isTag(Node(PreL, last.pos))
  /\ ~isTag(Node(PreL, ItPrev(PreL, last.pos)))

\* the new group stands immediately before the group of tag t
NewGroupBefore(t) == ItNext(KeyList, last.it) = t

\* the new group stands immediately behind the group of tag t
NewGroupBehind(t) ==
  Pos(KeyList, Node(KeyList, last.it).TagIt) = GroupEnd(KeyList, t) + 1

\* C34: when pos is on a non-first pair of a group G, insert(pos, key, value)
\* with key absent creates the new group at the boundary of G nearest to pos:
\* immediately before G or immediately behind G, whichever has fewer of G's
\* item slots between it and the insertion point in front of pos.
C34_NearestBoundary ==
  InsideGroup =>
    LET t == Node(PreL, last.pos).TagIt
        before == ItemsOfGroupBefore(PreL, t, Pos(PreL, last.pos))
        behind == ItemsOfGroupFrom(PreL, t, Pos(PreL, last.pos))
    IN /\ NewGroupBefore(t) \/ NewGroupBehind(t)
       /\ before < behind => NewGroupBefore(t)
       /\ behind < before => NewGroupBehind(t)

\* what the scan of insertionPointerForNewList does there: the new group
\* always goes behind G
X34_AlwaysBehind ==
  InsideGroup => NewGroupBehind(Node(PreL, last.pos).TagIt)

\* the iterator is on a pair of the i-th group of the list
InGroupNo(L, it, i) ==
  /\ i \in 1..Len(GroupHeads(L))
  /\ GroupHeads(L)[i].TagIt = Node(L, skipTagForward(L, it)).TagIt

\* the iterator designates the first pair of the i-th group of the list
OnHeadNo(L, it, i) ==
  /\ i \in 1..Len(GroupHeads(L))
  /\ OnPair(L, it)
  /\ skipTagForward(L, it) = GroupHeads(L)[i].id

\* C36: reverseSkip() is the backward counterpart of skip(): from any member
\* pair of a group G it moves to the first pair of the group preceding G, or
\* to the first pair of G itself when G is the first group; skip() followed
\* by reverseSkip(), started on the first pair of a group that is not the
\* last, returns to that pair.
C36_ReverseSkip ==
  LET L == KeyList
      n == Len(GroupHeads(L))
  IN \A p \in LivePos(L) :
       /\ \E i \in 1..n :
            /\ InGroupNo(L, p, i)
            /\ OnHeadNo(L, reverseSkip(L, p), IF i = 1 THEN 1 ELSE i - 1)
       /\ \A i \in 1..(n - 1) :
            OnHeadNo(L, p, i) =>
              /\ OnPair(L, skip(L, p))
              /\ OnHeadNo(L, reverseSkip(L, skip(L, p)), i)

\* the keys of the earlier revision's map in sequence order
RECURSIVE VLKeySeq(_)
VLKeySeq(S) == IF S = <<>> THEN <<>> ELSE Head(S).keys \o VLKeySeq(Tail(S))

\* erase was called on the earlier revision for a held key that shares its
\* group with other keys
VLErasedShared ==
  /\ last.op \in {"VLerase", "VLeraseKey"}
  /\ last.key \in DOMAIN last.pre.Index
  /\ Len(VLKeys(last.pre, last.pre.Index[last.key])) >= 2

\* C35: in the earlier vector-of-lists revision, erase of a present key k
\* that shares its group with other keys removes k from the key index as
\* well as from the group's list: afterwards count(k) == 0, find(k) == end(),
\* size() is one smaller, and the iterator the positional form returns
\* designates the next remaining pair, not the erased key.
C35_EarlierErase ==
  VLErasedShared =>
    LET k == last.key
        Q == VLKeySeq(last.pre.ValueListsStorage)
        n == PlaceOf(Q, k)
    IN /\ VLKeySeq(VL.ValueListsStorage) = SeqErase(Q, n)
       /\ VLcount(VL, k) = 0
       /\ VLItEq(VLfind(VL, k), VLend(VL))
       /\ VLsize(VL) = VLsize(last.pre) - 1
       /\ last.op = "VLerase" =>
            last.it.Key = (IF n < Len(Q) THEN Q[n + 1] ELSE NoKey)

\* the part of it that is about the group's list
X35_ListOnly ==
  VLErasedShared =>
    LET Q == VLKeySeq(last.pre.ValueListsStorage)
    IN VLKeySeq(VL.ValueListsStorage) = SeqErase(Q, PlaceOf(Q, last.key))

\* the same for a key that is alone in its group
X35_Alone ==
  (/\ last.op \in {"VLerase", "VLeraseKey"}
   /\ last.key \in DOMAIN last.pre.Index
   /\ Len(VLKeys(last.pre, last.pre.Index[last.key])) = 1) =>
    LET k == last.key
        Q == VLKeySeq(last.pre.ValueListsStorage)
        n == PlaceOf(Q, k)
    IN /\ VLKeySeq(VL.ValueListsStorage) = SeqErase(Q, n)
       /\ VLcount(VL, k) = 0
       /\ VLsize(VL) = VLsize(last.pre) - 1
       /\ last.op = "VLerase" =>
            last.it.Key = (IF n < Len(Q) THEN Q[n + 1] ELSE NoKey)

====
